---- MODULE Spec2Model ----
(***************************************************************************)
(* Model of src/main.py: the phone normaliser, the OKVED tree flattener,   *)
(* the longest-suffix matcher with its fallback, and the driver main().    *)
(*                                                                         *)
(* A Python str is a sequence of one-character strings.  An Optional       *)
(* value (X | None) is a sequence of length 0 (None) or 1 (the value).     *)
(***************************************************************************)
EXTENDS Integers, Sequences, FiniteSets, TLC

VARIABLES
    pc,            \* position of main(): start, is_file, download, load,
                   \* find_match, fallback, report, done
    argv,          \* sys.argv: a sequence of strings, argv[1] the script name
    file,          \* okved.json on disk: [exists, valid, data]
    result,        \* main's local `result` (Optional NormalizeResult)
    okved_items,   \* main's local `okved_items`
    phone_digits,  \* main's local `phone_digits`
    best,          \* main's local `best` (Optional OkvedItem)
    match_len,     \* main's local `match_len`
    out,           \* the lines printed so far
    ret,           \* how main ended: running, "1", "None" or the exception raised
    trace          \* the collaborators and components invoked so far, in order

vars == <<pc, argv, file, result, okved_items, phone_digits, best, match_len,
          out, ret, trace>>

-----------------------------------------------------------------------------
(* Optional values and strings *)

None == <<>>
Some(x) == <<x>>

DigitChars == {"0", "1", "2", "3", "4", "5", "6", "7", "8", "9"}

\* re.sub(r"\D", "", s): every character that is not a digit is dropped.
\* (For a str pattern \D also keeps the decimal digits of other scripts; the
\* texts modelled here are ASCII.)
RECURSIVE re_sub_nondigits(_)
re_sub_nondigits(s) ==
    IF s = <<>> THEN <<>>
    ELSE IF Head(s) \in DigitChars
         THEN <<Head(s)>> \o re_sub_nondigits(Tail(s))
         ELSE re_sub_nondigits(Tail(s))

\* str.startswith
startswith(s, prefix) ==
    /\ Len(prefix) <= Len(s)
    /\ SubSeq(s, 1, Len(prefix)) = prefix

\* endswith gone wrong: the start of s is compared instead of its end
endswith_prefix(s, suffix) ==
    /\ Len(suffix) <= Len(s)
    /\ SubSeq(s, 1, Len(suffix)) = suffix

\* str.endswith
endswith(s, suffix) ==
    /\ Len(suffix) <= Len(s)
    /\ SubSeq(s, Len(s) - Len(suffix) + 1, Len(s)) = suffix

\* str.lstrip(chars): leading characters of the set are removed.
RECURSIVE lstrip(_, _)
lstrip(s, chars) ==
    IF s # <<>> /\ Head(s) \in chars THEN lstrip(Tail(s), chars) ELSE s

\* sep.join(parts)
RECURSIVE join(_, _)
join(sep, parts) ==
    IF parts = <<>> THEN <<>>
    ELSE IF Len(parts) = 1 THEN Head(parts)
    ELSE Head(parts) \o sep \o join(sep, Tail(parts))

-----------------------------------------------------------------------------
(* normalise_phone_number *)

UnsupportedFormat == "UnsupportedFormat"
LengthMismatch == "LengthMismatch"
NotRussianMobile == "NotRussianMobile"

NormalizeResult(ok, value, error) == [ok |-> ok, value |-> value, error |-> error]

\* coerce gone wrong: the leading 8 is kept and a 7 put before it
coerce_bad8(digits) ==
    IF Len(digits) = 11 /\ startswith(digits, <<"8">>)
    THEN Some(<<"7">> \o digits)
    ELSE IF Len(digits) = 11 /\ startswith(digits, <<"7">>)
    THEN Some(digits)
    ELSE IF Len(digits) = 10 /\ startswith(digits, <<"9">>)
    THEN Some(<<"7">> \o digits)
    ELSE None

\* coerce gone wrong: the branch of line 56 is missing
coerce_no7(digits) ==
    IF Len(digits) = 11 /\ startswith(digits, <<"8">>)
    THEN Some(<<"7">> \o Tail(digits))
    ELSE IF Len(digits) = 10 /\ startswith(digits, <<"9">>)
    THEN Some(<<"7">> \o digits)
    ELSE None

\* coerce gone wrong: 79 is put before ten digits that already start with 9
coerce_bad9(digits) ==
    IF Len(digits) = 11 /\ startswith(digits, <<"8">>)
    THEN Some(<<"7">> \o Tail(digits))
    ELSE IF Len(digits) = 11 /\ startswith(digits, <<"7">>)
    THEN Some(digits)
    ELSE IF Len(digits) = 10 /\ startswith(digits, <<"9">>)
    THEN Some(<<"7", "9">> \o digits)
    ELSE None

\* coerce gone wrong: line 56 accepts any 11 digits
coerce_any11(digits) ==
    IF Len(digits) = 11 /\ startswith(digits, <<"8">>)
    THEN Some(<<"7">> \o Tail(digits))
    ELSE IF Len(digits) = 11
    THEN Some(digits)
    ELSE IF Len(digits) = 10 /\ startswith(digits, <<"9">>)
    THEN Some(<<"7">> \o digits)
    ELSE None

\* The shape rules of lines 53-61: the coerced digit string, or None.
coerce(digits) ==
    IF Len(digits) = 11 /\ startswith(digits, <<"8">>)
    THEN Some(<<"7">> \o Tail(digits))
    ELSE IF Len(digits) = 11 /\ startswith(digits, <<"7">>)
    THEN Some(digits)
    ELSE IF Len(digits) = 10 /\ startswith(digits, <<"9">>)
    THEN Some(<<"7">> \o digits)
    ELSE None

normalise_phone_number(phone_number) ==
    LET coerced == coerce(re_sub_nondigits(phone_number))
    IN  IF coerced = None
        THEN NormalizeResult(FALSE, None, Some(UnsupportedFormat))
        ELSE LET digits == coerced[1]
             IN  IF Len(digits) # 11
                 THEN NormalizeResult(FALSE, None, Some(LengthMismatch))
                 ELSE IF ~startswith(digits, <<"7", "9">>)
                 THEN NormalizeResult(FALSE, None, Some(NotRussianMobile))
                 ELSE NormalizeResult(TRUE, Some(<<"+">> \o digits), None)

-----------------------------------------------------------------------------
(* parse_json *)

OkvedItem(code, name, code_digits) ==
    [code |-> code, name |-> name, code_digits |-> code_digits]

\* A tree node: node.get("code") and node.get("name") are Optional strings
\* (the name is kept whole, "" the empty name), items the list of children.
Node(code, name, items) == [code |-> code, name |-> name, items |-> items]

\* Python truthiness of an Optional str: None and "" are false.
truthy_code(code) == code # None /\ code[1] # <<>>
truthy_name(name) == name # None /\ name[1] # ""

\* Lines 82-88 of walk: the records the node itself appends to result.
visit(node, res) ==
    IF truthy_code(node.code) /\ truthy_name(node.name)
    THEN LET code_digits == re_sub_nondigits(node.code[1])
         IN  IF code_digits # <<>>
             THEN Append(res, OkvedItem(node.code[1], node.name[1], code_digits))
             ELSE res
    ELSE res

RECURSIVE walk(_, _)
RECURSIVE walk_each(_, _)

\* walk gone wrong: the children are flattened before their parent
walk_postorder(node, res) ==
    visit(node, walk_each(node.items, res))

\* walk(node): the node first, then its children in order; res is the
\* enclosing `result` list before the call, the value is the list after it.
walk(node, res) ==
    walk_each(node.items, visit(node, res))

\* `for child in ...: walk(child)` (lines 90-91 and 92-93)
walk_each(nodes, res) ==
    IF nodes = <<>> THEN res
    ELSE walk_each(Tail(nodes), walk(Head(nodes), res))

parse_json(data) == walk_each(data, <<>>)

-----------------------------------------------------------------------------
(* find_match and fallback_okved *)

\* The loop of lines 107-112 over the items still to scan, with the current
\* (best_match, best_length).
RECURSIVE find_match_loop(_, _, _, _)
find_match_loop(phone, items, best_match, best_length) ==
    IF items = <<>> THEN <<best_match, best_length>>
    ELSE LET item == Head(items)
             length == Len(item.code_digits)
         IN  IF endswith(phone, item.code_digits) /\ length > best_length
             THEN find_match_loop(phone, Tail(items), Some(item), length)
             ELSE find_match_loop(phone, Tail(items), best_match, best_length)

\* find_match gone wrong: the first matching record wins, not the longest
RECURSIVE find_match_firsthit(_, _)
find_match_firsthit(phone, items) ==
    IF items = <<>> THEN <<None, 0>>
    ELSE IF endswith(phone, Head(items).code_digits)
              /\ Len(Head(items).code_digits) > 0
         THEN <<Some(Head(items)), Len(Head(items).code_digits)>>
         ELSE find_match_firsthit(phone, Tail(items))

find_match(phone, items) == find_match_loop(phone, items, None, 0)

\* min(iterable, key=...): a scan that keeps the first element of least key.
RECURSIVE min_scan(_, _)
min_scan(items, m) ==
    IF items = <<>> THEN m
    ELSE IF Len(Head(items).code_digits) < Len(m.code_digits)
         THEN min_scan(Tail(items), Head(items))
         ELSE min_scan(Tail(items), m)

\* min gone wrong: on equal keys the later element replaces the earlier
RECURSIVE min_scan_last(_, _)
min_scan_last(items, m) ==
    IF items = <<>> THEN m
    ELSE IF Len(Head(items).code_digits) <= Len(m.code_digits)
         THEN min_scan_last(Tail(items), Head(items))
         ELSE min_scan_last(Tail(items), m)

fallback_okved_last(items) == min_scan_last(Tail(items), Head(items))

\* Defined for a non-empty list; min() of an empty list raises ValueError,
\* which the Fallback action models.
fallback_okved(items) == min_scan(Tail(items), Head(items))

-----------------------------------------------------------------------------
(* The inputs the runs are drawn from *)

MaxDigits == 12    \* most digits in a raw phone text
MaxFill == 1       \* the digit runs that fill a raw phone start at 0..MaxFill
MaxNodes == 3      \* most nodes in a classification forest
MaxRecords == 2    \* most records handed to find_match directly
MaxCodeLen == 2    \* most digits in such a record's code

Min(a, b) == IF a < b THEN a ELSE b

\* s[a-1:b] clamped to the string, as Python slices are.
Slice(s, a, b) == SubSeq(s, Min(a, Len(s) + 1), Min(b, Len(s)))

DigitChar(n) == <<"0", "1", "2", "3", "4", "5", "6", "7", "8", "9">>[(n % 10) + 1]

\* The digits of a raw phone: two leading digits, then a run f, f+1, ...
LeadDigits == {"6", "7", "8", "9"}
SecondDigits == {"0", "7", "9"}
Core(d1, d2, f, n) ==
    Slice(<<d1, d2>> \o [i \in 1..MaxDigits |-> DigitChar(f + i - 1)], 1, n)
Cores ==
    {Core(d1, d2, f, n) : d1 \in LeadDigits, d2 \in SecondDigits,
                          f \in 0..MaxFill, n \in 0..MaxDigits}

\* What a user types around the digits.
Styles == {"plain", "plus", "pretty", "note"}
Decorate(c, style) ==
    CASE style = "plain" -> c
      [] style = "plus" -> <<"+">> \o c
      [] style = "pretty" ->
            <<"+">> \o Slice(c, 1, 1) \o <<" ", "(">> \o Slice(c, 2, 4)
            \o <<")", " ">> \o Slice(c, 5, 7) \o <<"-">> \o Slice(c, 8, 9)
            \o <<"-">> \o Slice(c, 10, Len(c))
      [] style = "note" -> <<"t", ":">> \o c \o <<"x">>
RawPhones == {Decorate(c, style) : c \in Cores, style \in Styles}

Script == <<"m", "a", "i", "n", ".", "p", "y">>
SplitAt == {1, 4}
Argvs ==
    {<<Script>>}
    \cup {<<Script, raw>> : raw \in RawPhones}
    \cup {<<Script, Slice(raw, 1, k), Slice(raw, k + 1, Len(raw))>> :
            raw \in RawPhones, k \in SplitAt}

\* The bytes of okved.json, on disk or behind JSON_URL: valid JSON holding
\* a forest, or something json.loads rejects.
Content(valid, data) == [valid |-> valid, data |-> data]
Str78 == <<"7", ".", "8">>
Str678 == <<"6", "7", ".", "8">>
SampleForest ==
    <<Node(Some(<<"A">>), Some("Section A"),
           <<Node(Some(<<"8">>), Some("n8"),
                  <<Node(Some(Str78), Some("n78"),
                         <<Node(Some(Str678), Some("n678"), <<>>)>>)>>)>>),
      Node(Some(<<"0", "1">>), Some("n01"), <<>>)>>
BarrenForest == <<Node(Some(<<"B">>), Some("Section B"), <<Node(None, None, <<>>)>>)>>
Contents ==
    {Content(FALSE, <<>>), Content(TRUE, <<>>), Content(TRUE, BarrenForest),
     Content(TRUE, SampleForest)}
RemoteContents == Contents
Absent == [exists |-> FALSE, valid |-> FALSE, data |-> <<>>]
Present(content) == [exists |-> TRUE, valid |-> content.valid, data |-> content.data]

\* Every forest of at most MaxNodes nodes labelled from NodeLabels.
Str89 == <<"8", ".", "9">>
NodeLabels ==
    {[code |-> None, name |-> Some("n1")],
     [code |-> Some(<<>>), name |-> Some("n2")],
     [code |-> Some(<<"A", ".">>), name |-> Some("n3")],
     [code |-> Some(Str89), name |-> None],
     [code |-> Some(Str89), name |-> Some("")],
     [code |-> Some(Str89), name |-> Some("n6")],
     [code |-> Some(<<"0", "9">>), name |-> Some("n7")]}
RECURSIVE ForestsOfSize(_)
ForestsOfSize(n) ==
    IF n = 0 THEN {<<>>}
    ELSE UNION {{<<Node(l.code, l.name, kids)>> \o rest :
                    l \in NodeLabels, kids \in ForestsOfSize(k - 1),
                    rest \in ForestsOfSize(n - k)} : k \in 1..n}
Forests == UNION {ForestsOfSize(n) : n \in 0..MaxNodes}
FlattenArgv == <<Script, <<"8", "9", "1", "2", "3", "4", "5", "6", "7", "0", "9">>>>

\* Digit strings and records for find_match driven directly.
MatchDigits == {"6", "7"}
DigitStrings(n) == UNION {[1..k -> MatchDigits] : k \in 0..n}
MatchPhones == DigitStrings(MaxCodeLen + 1)
MatchItems == {OkvedItem(d, "n", d) : d \in DigitStrings(MaxCodeLen)}
MatchItemLists == UNION {[1..k -> MatchItems] : k \in 0..MaxRecords}

-----------------------------------------------------------------------------
(* main *)

Line(kind, payload) == <<kind, payload>>

Running == "running"

\* Normalise with the early return of lines 146 and 156 left out
Normalise_NoReturn ==
    /\ pc = "start"
    /\ Len(argv) >= 2
    /\ LET multi == Len(argv) > 2
           raw_phone == IF multi THEN join(<<" ">>, Tail(argv)) ELSE argv[2]
           r == normalise_phone_number(raw_phone)
       IN  /\ result' = Some(r)
           /\ trace' = Append(trace, "normalise_phone_number")
           /\ out' = IF r.ok THEN Append(out, Line("value", r.value))
                     ELSE out \o <<Line("False", None), Line("error", r.error)>>
           /\ ret' = ret
           /\ pc' = "is_file"
    /\ UNCHANGED <<argv, file, okved_items, phone_digits, best, match_len>>

\* Lines 133-158: argument check and normalisation.
Normalise ==
    /\ pc = "start"
    /\ IF Len(argv) < 2
       THEN /\ out' = Append(out, Line("usage", None))
            /\ ret' = "1"
            /\ pc' = "done"
            /\ UNCHANGED <<result, trace>>
       ELSE LET multi == Len(argv) > 2
                raw_phone == IF multi THEN join(<<" ">>, Tail(argv)) ELSE argv[2]
                r == normalise_phone_number(raw_phone)
                pre == IF multi THEN <<Line("needs_conversion", None)>> ELSE <<>>
            IN  /\ result' = Some(r)
                /\ trace' = Append(trace, "normalise_phone_number")
                /\ IF ~r.ok
                   THEN /\ out' = out \o pre \o
                                  <<Line("False", None), Line("error", r.error)>>
                        /\ ret' = "1"
                        /\ pc' = "done"
                   ELSE /\ out' = out \o pre \o <<Line("value", r.value)>>
                        /\ ret' = ret
                        /\ pc' = "is_file"
    /\ UNCHANGED <<argv, file, okved_items, phone_digits, best, match_len>>

\* Lines 161-170: JSON_FILE.is_file()
CheckFile ==
    /\ pc = "is_file"
    /\ trace' = Append(trace, "is_file")
    /\ IF ~file.exists
       THEN /\ out' = Append(out, Line("file_missing", None))
            /\ pc' = "download"
       ELSE /\ out' = Append(out, Line("file_cached", None))
            /\ pc' = "load"
    /\ UNCHANGED <<argv, file, result, okved_items, phone_digits, best,
                   match_len, ret>>

\* Lines 163-168: download_okved_file(JSON_URL, JSON_FILE).  The request
\* either raises (no network, HTTP status other than 200), which main
\* catches, or writes the bytes it read to the file.
DownloadFails ==
    /\ out' = out \o <<Line("false", None), Line("error", Some("download"))>>
    /\ ret' = "1"
    /\ pc' = "done"
    /\ file' = file

DownloadWrites(content) ==
    /\ file' = [exists |-> TRUE, valid |-> content.valid, data |-> content.data]
    /\ pc' = "load"
    /\ UNCHANGED <<out, ret>>

Download ==
    /\ pc = "download"
    /\ trace' = Append(trace, "download_okved_file")
    /\ \/ DownloadFails
       \/ \E content \in RemoteContents : DownloadWrites(content)
    /\ UNCHANGED <<argv, result, okved_items, phone_digits, best, match_len>>

\* Lines 175-178: read and decode the file, flatten it, strip the "+".
\* json.loads raises JSONDecodeError on a file that is not JSON.
Load ==
    /\ pc = "load"
    /\ IF ~file.valid
       THEN /\ trace' = trace \o <<"read_text", "json.loads">>
            /\ ret' = "JSONDecodeError"
            /\ pc' = "done"
            /\ UNCHANGED <<okved_items, phone_digits>>
       ELSE /\ trace' = trace \o <<"read_text", "json.loads", "parse_json">>
            /\ okved_items' = parse_json(file.data)
            /\ phone_digits' = lstrip(result[1].value[1], {"+"})
            /\ pc' = "find_match"
            /\ ret' = ret
    /\ UNCHANGED <<argv, file, result, best, match_len, out>>

\* FindMatch without the fallback branch of lines 181-183
FindMatch_NoFallback ==
    /\ pc = "find_match"
    /\ LET found == find_match(phone_digits, okved_items)
       IN  /\ best' = found[1]
           /\ match_len' = found[2]
           /\ pc' = "report"
    /\ trace' = Append(trace, "find_match")
    /\ UNCHANGED <<argv, file, result, okved_items, phone_digits, out, ret>>

\* Line 179
FindMatch ==
    /\ pc = "find_match"
    /\ LET found == find_match(phone_digits, okved_items)
       IN  /\ best' = found[1]
           /\ match_len' = found[2]
           /\ pc' = IF found[1] = None THEN "fallback" ELSE "report"
    /\ trace' = Append(trace, "find_match")
    /\ UNCHANGED <<argv, file, result, okved_items, phone_digits, out, ret>>

\* Lines 181-183; min() raises ValueError on an empty list and nothing
\* catches it.
Fallback ==
    /\ pc = "fallback"
    /\ trace' = Append(trace, "fallback_okved")
    /\ IF okved_items = <<>>
       THEN /\ ret' = "ValueError"
            /\ pc' = "done"
            /\ UNCHANGED <<best, match_len>>
       ELSE /\ best' = Some(fallback_okved(okved_items))
            /\ match_len' = 0
            /\ pc' = "report"
            /\ ret' = ret
    /\ UNCHANGED <<argv, file, result, okved_items, phone_digits, out>>

\* Lines 185-186; main then falls off its end and returns None.
Report ==
    /\ pc = "report"
    /\ out' = out \o <<Line("okved", best), Line("match_len", Some(match_len))>>
    /\ ret' = "None"
    /\ pc' = "done"
    /\ UNCHANGED <<argv, file, result, okved_items, phone_digits, best,
                   match_len, trace>>

-----------------------------------------------------------------------------
(* Specifications *)

Locals ==
    /\ result = None
    /\ okved_items = <<>>
    /\ phone_digits = <<>>
    /\ best = None
    /\ match_len = 0
    /\ out = <<>>
    /\ ret = Running
    /\ trace = <<>>

\* main on every command line of Argvs, with okved.json absent or holding
\* any of Contents.
Init ==
    /\ pc = "start"
    /\ argv \in Argvs
    /\ file \in {Absent} \cup {Present(c) : c \in Contents}
    /\ Locals

Next == Normalise \/ CheckFile \/ Download \/ Load \/ FindMatch \/ Fallback \/ Report

Spec == Init /\ [][Next]_vars

\* main on one good phone with okved.json cached and holding any forest of
\* Forests.
InitFlatten ==
    /\ pc = "start"
    /\ argv = FlattenArgv
    /\ file \in {Present(Content(TRUE, f)) : f \in Forests}
    /\ Locals

NextFlatten == Normalise \/ CheckFile \/ Load \/ FindMatch \/ Fallback \/ Report

SpecFlatten == InitFlatten /\ [][NextFlatten]_vars

\* Lines 179-186 of main entered with any phone digit string and any record
\* list: find_match and fallback_okved on every argument within the bounds.
InitMatch ==
    /\ pc = "find_match"
    /\ argv = <<Script>>
    /\ file = Absent
    /\ result = None
    /\ okved_items \in MatchItemLists
    /\ phone_digits \in MatchPhones
    /\ best = None
    /\ match_len = 0
    /\ out = <<>>
    /\ ret = Running
    /\ trace = <<>>

NextMatch == FindMatch \/ Fallback \/ Report

SpecMatch == InitMatch /\ [][NextMatch]_vars

-----------------------------------------------------------------------------
(* Vocabulary of the claims, stated without the operators modelled above *)

\* s with every character that is not a digit removed
DigitsOf(s) == SelectSeq(s, LAMBDA c : c \in DigitChars)

\* d is a suffix of s: s is some prefix followed by d
IsSuffixOf(d, s) ==
    \E k \in 0..Len(s) : d = [i \in 1..(Len(s) - k) |-> s[k + i]]

\* The text main hands to the normaliser (argv[1], or the arguments after the
\* script name with a space between them).
RECURSIVE Spaced(_)
Spaced(parts) ==
    IF Len(parts) = 1 THEN parts[1] ELSE parts[1] \o <<" ">> \o Spaced(Tail(parts))
RawPhone == Spaced(Tail(argv))
RawDigits == DigitsOf(RawPhone)

Normalised == result # None
Outcome == result[1]

\* The three accepted shapes of the stripped digits
Shape8 == Len(RawDigits) = 11 /\ RawDigits[1] = "8"
Shape7 == Len(RawDigits) = 11 /\ RawDigits[1] = "7"
Shape9 == Len(RawDigits) = 10 /\ RawDigits[1] = "9"

\* find_match has returned and nothing has run since
Matched == trace # <<>> /\ trace[Len(trace)] = "find_match"
\* fallback_okved has returned a record
FellBack == trace # <<>> /\ trace[Len(trace)] = "fallback_okved" /\ ret # "ValueError"

Suffixes(items, phone) ==
    {i \in 1..Len(items) : IsSuffixOf(items[i].code_digits, phone)}

\* The run printed a classification code
Reported == \E i \in 1..Len(out) : out[i][1] = "okved"

-----------------------------------------------------------------------------
(* C1 *)

\* C1: whenever find_match returns a record, the phone digit string ends with
\* that record's digits, match_length is the length of those digits, and no
\* record of the list whose digits are also a suffix of the phone has
\* strictly longer digits.
C1_SuffixCorrect ==
    (Matched /\ best # None) =>
        /\ best[1] \in {okved_items[i] : i \in 1..Len(okved_items)}
        /\ IsSuffixOf(best[1].code_digits, phone_digits)
        /\ match_len = Len(best[1].code_digits)
        /\ \A i \in Suffixes(okved_items, phone_digits) :
              Len(okved_items[i].code_digits) <= Len(best[1].code_digits)

\* find_match returned the later of two matching records because it is longer
C1_Witness ==
    /\ Matched
    /\ best # None
    /\ \E i, j \in Suffixes(okved_items, phone_digits) :
          /\ i < j
          /\ 0 < Len(okved_items[i].code_digits)
          /\ Len(okved_items[i].code_digits) < Len(okved_items[j].code_digits)
          /\ best[1] = okved_items[j]

(* C2 *)

NonEmptyDigits == \A i \in 1..Len(okved_items) : okved_items[i].code_digits # <<>>

\* C2: on records that all have non-empty digits, find_match returns
\* match_length 0, and no record, exactly when no record's digits is a suffix
\* of the phone digit string.
C2_ZeroIffNoSuffix ==
    (Matched /\ NonEmptyDigits) =>
        /\ (match_len = 0) <=> (Suffixes(okved_items, phone_digits) = {})
        /\ (match_len = 0) <=> (best = None)

\* find_match returned (none, 0) on a list of records none of which matches
C2_Witness ==
    /\ Matched
    /\ NonEmptyDigits
    /\ Len(okved_items) >= 2
    /\ phone_digits # <<>>
    /\ match_len = 0
    /\ best = None

(* C3 *)

\* C3 as claimed: on stripped digits of 11 digits starting with 8 the
\* normaliser succeeds with +7 followed by the remaining 10 digits.
C3_Original ==
    (Normalised /\ Shape8) =>
        /\ Outcome.ok
        /\ Outcome.value = Some(<<"+", "7">> \o Tail(RawDigits))

\* C3 amended: on stripped digits of 11 digits starting with 89 the
\* normaliser succeeds with +7 followed by the remaining 10 digits; on 11
\* digits starting with 8 and a second digit other than 9 it fails with
\* NotRussianMobile.
C3_Leading89 ==
    (Normalised /\ Shape8) =>
        IF RawDigits[2] = "9"
        THEN /\ Outcome.ok
             /\ Outcome.value = Some(<<"+", "7">> \o Tail(RawDigits))
             /\ Outcome.error = None
        ELSE /\ ~Outcome.ok
             /\ Outcome.value = None
             /\ Outcome.error = Some(NotRussianMobile)

\* a decorated 89... number was normalised
C3_Witness ==
    /\ Normalised
    /\ Shape8
    /\ RawDigits[2] = "9"
    /\ RawPhone # RawDigits
    /\ Outcome.ok

(* C4 *)

\* The file is there (cached or downloaded), decodes, and flattens to at
\* least one record.
Usable == file.exists /\ file.valid /\ okved_items # <<>>

\* C4 as claimed: every run whose normalisation succeeds ends with a
\* classification code reported.
C4_Original ==
    (pc = "done" /\ Normalised /\ Outcome.ok) => Reported

\* C4 amended: a run whose normalisation succeeds and whose classification
\* file is available (cached or downloaded), decodes and flattens to at least
\* one record ends by reporting a code, the longest suffix match or else the
\* fallback record, and returns normally; every other run whose normalisation
\* succeeds ends without a reported code: with exit value 1 when the download
\* fails, with an uncaught JSONDecodeError or ValueError otherwise.  No such
\* run stops before its end.
C4_CodeWhenUsable ==
    /\ (pc # "done" /\ Normalised /\ Outcome.ok) => ENABLED Next
    /\ (pc = "done" /\ Normalised /\ Outcome.ok) =>
          IF Usable
          THEN /\ ret = "None"
               /\ Len(out) >= 2
               /\ out[Len(out) - 1] = <<"okved", best>>
               /\ out[Len(out)] = <<"match_len", Some(match_len)>>
               /\ best # None
               /\ best[1] \in {okved_items[i] : i \in 1..Len(okved_items)}
               /\ \/ match_len > 0 /\ IsSuffixOf(best[1].code_digits, phone_digits)
                  \/ match_len = 0 /\ Suffixes(okved_items, phone_digits) = {}
          ELSE /\ ~Reported
               /\ \/ ret = "1" /\ ~file.exists
                  \/ ret = "JSONDecodeError" /\ file.exists /\ ~file.valid
                  \/ ret = "ValueError" /\ file.exists /\ file.valid

\* a run fetched the missing file and reported the fallback record
C4_Witness ==
    /\ pc = "done"
    /\ Normalised
    /\ Outcome.ok
    /\ \E i \in 1..Len(trace) : trace[i] = "download_okved_file"
    /\ Usable
    /\ Reported
    /\ match_len = 0

(* C5 *)

\* the position of the first record of least digit length
FirstShortest(items) ==
    CHOOSE i \in 1..Len(items) :
        /\ \A j \in 1..Len(items) :
              Len(items[i].code_digits) <= Len(items[j].code_digits)
        /\ \A j \in 1..(i - 1) :
              Len(items[i].code_digits) < Len(items[j].code_digits)

\* C5: on a non-empty record list fallback_okved returns a record of least
\* digit length, the first such record of the list, and main reports it with
\* match length 0 whatever the record's own digit length.
C5_FallbackFirstShortest ==
    (FellBack /\ okved_items # <<>>) =>
        /\ best = Some(okved_items[FirstShortest(okved_items)])
        /\ match_len = 0
        /\ pc \in {"report", "done"}
        /\ pc = "done" =>
              out = <<<<"okved", best>>, <<"match_len", Some(0)>>>>

\* the fallback chose the first of two different shortest records, of
\* non-zero digit length, and main reported it
C5_Witness ==
    /\ FellBack
    /\ pc = "done"
    /\ \E i, j \in 1..Len(okved_items) :
          /\ i < j
          /\ i = FirstShortest(okved_items)
          /\ Len(okved_items[i].code_digits) = Len(okved_items[j].code_digits)
          /\ okved_items[i] # okved_items[j]
          /\ Len(okved_items[i].code_digits) > 0

(* C6 *)

\* The positions of a forest's nodes: the path of child indexes to each.
RECURSIVE Paths(_)
Paths(nodes) ==
    UNION {{<<i>>} \cup {<<i>> \o p : p \in Paths(nodes[i].items)} :
             i \in 1..Len(nodes)}

RECURSIVE NodeAt(_, _)
NodeAt(nodes, path) ==
    IF Len(path) = 1 THEN nodes[path[1]]
    ELSE NodeAt(nodes[path[1]].items, Tail(path))

\* p comes before q in depth-first pre-order: p is an ancestor of q, or at
\* the first index where they differ p takes the earlier child.
PreOrderBefore(p, q) ==
    \/ Len(p) < Len(q) /\ SubSeq(q, 1, Len(p)) = p
    \/ \E k \in 1..Min(Len(p), Len(q)) :
          /\ SubSeq(p, 1, k - 1) = SubSeq(q, 1, k - 1)
          /\ p[k] < q[k]

\* a node with a non-empty code, a non-empty name and a digit in its code
Emits(node) ==
    /\ node.code # None
    /\ node.name # None
    /\ node.name[1] # ""
    /\ \E i \in 1..Len(node.code[1]) : node.code[1][i] \in DigitChars

RecordOf(node) ==
    [code |-> node.code[1], name |-> node.name[1],
     code_digits |-> DigitsOf(node.code[1])]

Emitting(forest) == {p \in Paths(forest) : Emits(NodeAt(forest, p))}

Flattened == pc \in {"find_match", "fallback", "report", "done"} /\ ret # "JSONDecodeError"

\* C6: parse_json emits one record for each node with a non-empty code, a
\* non-empty name and a digit in its code, none for any other node, and the
\* records stand in the depth-first pre-order of their nodes; the children of
\* a node that emits nothing are visited all the same.
C6_PreOrderOnce ==
    Flattened =>
        LET E == Emitting(file.data)
        IN  /\ Len(okved_items) = Cardinality(E)
            /\ \A p \in E :
                  okved_items[1 + Cardinality({q \in E : PreOrderBefore(q, p)})]
                      = RecordOf(NodeAt(file.data, p))

\* a forest was flattened in which a node that emits nothing has an emitting
\* child, and an emitting node has an emitting child
C6_Witness ==
    /\ Flattened
    /\ LET E == Emitting(file.data)
           P == Paths(file.data)
       IN  /\ \E p \in P \ E : \E q \in E : Len(q) = Len(p) + 1 /\ PreOrderBefore(p, q)
           /\ \E p \in E : \E q \in E : Len(q) = Len(p) + 1 /\ SubSeq(q, 1, Len(p)) = p
           /\ Len(okved_items) >= 2

(* C7 *)

\* C7: a value the normaliser returns is a + followed by 11 digits, the first
\* a 7, and normalising that value again succeeds with the same value.
C7_Idempotent ==
    (Normalised /\ Outcome.ok) =>
        LET v == Outcome.value[1]
        IN  /\ Len(v) = 12
            /\ v[1] = "+"
            /\ v[2] = "7"
            /\ \A i \in 2..12 : v[i] \in DigitChars
            /\ normalise_phone_number(v) = Outcome

\* a text that is not itself normalised was normalised
C7_Witness ==
    /\ Normalised
    /\ Outcome.ok
    /\ Some(RawPhone) # Outcome.value

(* C8 *)

\* C8: on stripped digits of 10 digits starting with 9 the normaliser
\* succeeds with +79 followed by the remaining 9 digits.
C8_TenDigits ==
    (Normalised /\ Shape9) =>
        /\ Outcome.ok
        /\ Outcome.value = Some(<<"+", "7", "9">> \o Tail(RawDigits))
        /\ Outcome.error = None

\* a decorated ten-digit number was normalised
C8_Witness ==
    /\ Normalised
    /\ Shape9
    /\ RawPhone # RawDigits
    /\ Outcome.ok

(* C9 *)

\* C9: on stripped digits of none of the three accepted shapes the normaliser
\* fails (ok false, no value, an error) with UnsupportedFormat;
\* NotRussianMobile is returned only when the digits were coerced to 11
\* digits that do not start with 79; LengthMismatch is never returned; and
\* exactly one of value and error is populated, as the flag says.
C9_Failures ==
    Normalised =>
        /\ ~(Shape8 \/ Shape7 \/ Shape9) =>
              /\ ~Outcome.ok
              /\ Outcome.value = None
              /\ Outcome.error = Some(UnsupportedFormat)
        /\ Outcome.error = Some(NotRussianMobile) =>
              /\ Shape8 \/ Shape7
              /\ RawDigits[2] # "9"
        /\ Outcome.error # Some(LengthMismatch)
        /\ Outcome.ok <=> Outcome.value # None
        /\ Outcome.ok <=> Outcome.error = None

\* 11 digits with a leading 6 were refused as an unsupported format
C9_Witness ==
    /\ Normalised
    /\ Len(RawDigits) = 11
    /\ RawDigits[1] = "6"
    /\ Outcome.error = Some(UnsupportedFormat)

(* C10 *)

\* C10: when normalisation fails, main ends at once with exit value 1, the
\* error the last thing printed; the classification file is not checked,
\* downloaded or read and parse_json, find_match and fallback_okved are not
\* called, on the one-argument and on the several-argument path alike.
C10_FailureEndsRun ==
    (Normalised /\ ~Outcome.ok) =>
        /\ pc = "done"
        /\ ret = "1"
        /\ trace = <<"normalise_phone_number">>
        /\ out[Len(out)] = <<"error", Outcome.error>>
        /\ out[Len(out) - 1] = <<"False", None>>
        /\ Len(out) = IF Len(argv) > 2 THEN 3 ELSE 2
        /\ okved_items = <<>> /\ best = None

\* a phone given as several arguments was refused
C10_Witness ==
    /\ Normalised
    /\ ~Outcome.ok
    /\ Len(argv) > 2
    /\ pc = "done"

====
